---- MODULE Spec2Model ----
(***************************************************************************)
(* Sales-Data: a Streamlit dashboard (src/dashboard.py) over a CSV of      *)
(* sales records, and two generators of synthetic records                  *)
(* (src/data_generator.py, src/simple_data_generator.py).                  *)
(*                                                                         *)
(* Money is counted in cents (the generators round Sales and Profit to two *)
(* decimals), so every sum is an exact integer sum.  A timestamp is the    *)
(* pair <<day, tick>>: the day counted from the first day of the data and  *)
(* the time of day; Series.dt.date keeps the day.                          *)
(***************************************************************************)
EXTENDS Integers, Sequences, FiniteSets, TLC

VARIABLES
    file_exists,   \* os.path.exists('data/sales_data.csv')
    csv,           \* the rows of data/sales_data.csv
    cache,         \* st.cache_data's stored result of load_data, kept across runs
    df,            \* main's df
    filters,       \* main's filters
    filtered_df,   \* main's filtered_df
    kpi,           \* what display_kpi_metrics put on the page in this run
    charts,        \* the data behind the charts drawn in this run
    given_top_n,   \* the top_n that create_top_products_chart is called with
    shown,         \* the page elements rendered in this run, in order
    applied,       \* the filter steps applied to filtered_df so far
    pc,            \* where the current script run stands
    generator,     \* the generator that runs: "faker" (data_generator.py) or "simple"
    num_records,   \* its argument
    today,         \* the day of datetime.now(), counted from 1 January of some year
    data,          \* its list of row dicts
    iterations,    \* loop iterations completed
    result,        \* the DataFrame it returns
    g_pc           \* where the generator stands

dash_vars == <<file_exists, csv, cache, df, filters, filtered_df, applied, kpi, charts, given_top_n,
               shown, pc>>
gen_vars == <<generator, num_records, today, data, iterations, result, g_pc>>
vars == <<dash_vars, gen_vars>>

\* Longest table read from the CSV.
MaxRows == 2

\* Largest num_records given to a generator.
MaxRecords == 1

\* Longest table given to create_top_products_chart on its own.
MaxTopRows == 3

\* Largest top_n tried besides the default.
MaxTopN == 2

\* A name that may not be bound yet (df, filters, ... before their assignment):
\* None, or Some(v) once v is assigned.
None == <<>>
Some(v) == <<v>>
Get(o) == o[1]

-----------------------------------------------------------------------------
(* Helpers over tables (sequences of rows).                                *)

Range(s) == {s[i] : i \in 1..Len(s)}

Column(d, col) == {d[i][col] : i \in 1..Len(d)}

RECURSIVE SumCol(_, _)
\* Series.sum() of column col
SumCol(d, col) == IF d = <<>> THEN 0 ELSE d[1][col] + SumCol(Tail(d), col)

\* the rows of d whose column col equals v, in d's order
Where(d, col, v) == SelectSeq(d, LAMBDA r : r[col] = v)

\* Series.dt.date of a timestamp
DateOf(ts) == ts[1]

-----------------------------------------------------------------------------
(* The CSV.  The rows a file may hold are drawn from SampleRows: records   *)
(* with the ten columns the generators write.  Every filter column takes   *)
(* several values, no two columns determine each other apart from          *)
(* Product -> Category, rows repeat customers and products, and two rows   *)
(* of one day differ in the time of day.                                   *)

Row(ts, product, category, region, sales, quantity, customer, segment, discount, profit) ==
    [Date |-> ts, Product |-> product, Category |-> category, Region |-> region,
     Sales |-> sales, Quantity |-> quantity, Customer_ID |-> customer,
     Customer_Segment |-> segment, Discount |-> discount, Profit |-> profit]

SampleRows ==
    { Row(<<0, 0>>, "Laptop",   "Electronics", "North", 100000, 1, "CUST_00001", "Consumer",     0, 15000),
      Row(<<0, 1>>, "Tablet",   "Electronics", "South",  40000, 2, "CUST_00002", "Corporate",   10,  5000),
      Row(<<1, 0>>, "Cookbook", "Books",       "North",   2000, 1, "CUST_00001", "Corporate",    0,   500),
      Row(<<1, 1>>, "Laptop",   "Electronics", "South",  40000, 1, "CUST_00003", "Consumer",    30,  7000),
      Row(<<2, 0>>, "Cookbook", "Books",       "South",   4000, 2, "CUST_00002", "Home Office",  5,   900),
      Row(<<2, 1>>, "Tablet",   "Electronics", "North",  25000, 1, "CUST_00003", "Corporate",    0,  6000) }

\* the non-empty tables of at most MaxRows rows
Tables == UNION {[1..n -> SampleRows] : n \in 1..MaxRows}

-----------------------------------------------------------------------------
(* load_data                                                               *)

DayNames == <<"Monday", "Tuesday", "Wednesday", "Thursday", "Friday", "Saturday", "Sunday">>

\* Series.dt.day_name(); day 0 of the data is taken to be a Monday
day_name(ts) == DayNames[(DateOf(ts) % Len(DayNames)) + 1]

\* pd.to_datetime and the derived columns.  Year, Month, Quarter and Month_Name
\* need a calendar and are read by no function of the dashboard; Day_of_Week
\* stands for the derived columns.
Preprocess(content) ==
    [i \in 1..Len(content) |->
        [Date |-> content[i].Date, Product |-> content[i].Product,
         Category |-> content[i].Category, Region |-> content[i].Region,
         Sales |-> content[i].Sales, Quantity |-> content[i].Quantity,
         Customer_ID |-> content[i].Customer_ID,
         Customer_Segment |-> content[i].Customer_Segment,
         Discount |-> content[i].Discount, Profit |-> content[i].Profit,
         Day_of_Week |-> day_name(content[i].Date)]]

NotFoundError == "Sales data not found. Please run data_generator.py first to create sample data."

\* mutant: no test of os.path.exists; read_csv raises and line 77 reports it
load_data_Unchecked(cached, exists, content) ==
    IF cached # None
    THEN [stopped |-> FALSE, errors |-> <<>>, df |-> cached, cache |-> cached]
    ELSE IF exists
         THEN [stopped |-> FALSE, errors |-> <<>>,
               df |-> Some(Preprocess(content)), cache |-> Some(Preprocess(content))]
         ELSE [stopped |-> TRUE, errors |-> <<"Error loading data: No such file or directory">>,
               df |-> None, cache |-> None]

\* One call of the cached load_data: a cache hit returns the stored table without
\* running the body; otherwise the body reads the file, or reports the error and
\* stops the script (st.stop raises past the except clause).  A stopped call
\* stores nothing.
load_data(cached, exists, content) ==
    IF cached # None
    THEN [stopped |-> FALSE, errors |-> <<>>, df |-> cached, cache |-> cached]
    ELSE IF exists
         THEN [stopped |-> FALSE, errors |-> <<>>,
               df |-> Some(Preprocess(content)), cache |-> Some(Preprocess(content))]
         ELSE [stopped |-> TRUE, errors |-> <<NotFoundError>>,
               df |-> None, cache |-> None]

-----------------------------------------------------------------------------
(* create_sidebar_filters                                                  *)

\* what st.sidebar.date_input may return for a range between min_date and
\* max_date: no date, a start date alone, or a start and an end date
DateInputs(d) ==
    LET days == {DateOf(ts) : ts \in Column(d, "Date")}
        min_date == CHOOSE x \in days : \A y \in days : x <= y
        max_date == CHOOSE x \in days : \A y \in days : y <= x
    IN  {<<>>}
        \cup {<<s>> : s \in min_date..max_date}
        \cup {r \in (min_date..max_date) \X (min_date..max_date) : r[1] <= r[2]}

\* the choices of a selectbox: 'All' and the column's values
Options(d, col) == {"All"} \cup Column(d, col)

create_sidebar_filters(d) ==
    [date_range : DateInputs(d),
     category : Options(d, "Category"),
     region : Options(d, "Region"),
     segment : Options(d, "Customer_Segment"),
     product : Options(d, "Product")]

-----------------------------------------------------------------------------
(* filter_data: each step reads and replaces filtered_df; df is the        *)
(* caller's table.                                                         *)

\* mutant: the end date left out of the range
StepDate_EndExclusive(d, cur, f) ==
    IF Len(f.date_range) = 2
    THEN SelectSeq(cur, LAMBDA r : DateOf(r.Date) >= f.date_range[1]
                                   /\ DateOf(r.Date) < f.date_range[2])
    ELSE cur

\* mutant: a start date alone already restricts the rows
StepDate_StartOnly(d, cur, f) ==
    IF Len(f.date_range) = 2
    THEN SelectSeq(cur, LAMBDA r : DateOf(r.Date) >= f.date_range[1]
                                   /\ DateOf(r.Date) <= f.date_range[2])
    ELSE IF Len(f.date_range) = 1
    THEN SelectSeq(cur, LAMBDA r : DateOf(r.Date) >= f.date_range[1])
    ELSE cur

StepDate(d, cur, f) ==
    IF Len(f.date_range) = 2
    THEN SelectSeq(cur, LAMBDA r : DateOf(r.Date) >= f.date_range[1]
                                   /\ DateOf(r.Date) <= f.date_range[2])
    ELSE cur

StepCategory(d, cur, f) ==
    IF f.category # "All" THEN Where(cur, "Category", f.category) ELSE cur

\* mutant: the step filters df, dropping what the earlier steps did
StepRegion_OfDf(d, cur, f) ==
    IF f.region # "All" THEN Where(d, "Region", f.region) ELSE cur

StepRegion(d, cur, f) ==
    IF f.region # "All" THEN Where(cur, "Region", f.region) ELSE cur

StepSegment(d, cur, f) ==
    IF f.segment # "All" THEN Where(cur, "Customer_Segment", f.segment) ELSE cur

StepProduct(d, cur, f) ==
    IF f.product # "All" THEN Where(cur, "Product", f.product) ELSE cur

\* the filter steps in the order of the code
FilterSteps == <<"date", "category", "region", "segment", "product">>

\* the k-th filter step of filter_data
Step(k, d, cur, f) ==
    CASE FilterSteps[k] = "date" -> StepDate(d, cur, f)
      [] FilterSteps[k] = "category" -> StepCategory(d, cur, f)
      [] FilterSteps[k] = "region" -> StepRegion(d, cur, f)
      [] FilterSteps[k] = "segment" -> StepSegment(d, cur, f)
      [] FilterSteps[k] = "product" -> StepProduct(d, cur, f)

RECURSIVE ApplySteps(_, _, _, _)
\* the steps named by order, first to last, starting from cur
ApplySteps(order, d, cur, f) ==
    IF order = <<>> THEN cur
    ELSE ApplySteps(Tail(order), d, Step(Head(order), d, cur, f), f)

\* df.copy(): a new table equal to d
Copy(d) == d

filter_data(d, f) == ApplySteps([k \in DOMAIN FilterSteps |-> k], d, Copy(d), f)

\* mutant: no copy, the steps replace the caller's table
FrameAfterFilter_InPlace(d, f) == filter_data(d, f)

\* the caller's df once filter_data has returned: the steps worked on the copy
FrameAfterFilter(d, f) == d

-----------------------------------------------------------------------------
(* display_kpi_metrics and the chart functions                             *)

\* Series.nunique()
nunique(d, col) == Cardinality(Column(d, col))

\* a quotient kept exact; pandas gives NaN for 0/0
Ratio(num, den) == IF den = 0 THEN "NaN" ELSE <<num, den>>

\* mutant: a test that no DataFrame meets (filtered_df is None)
empty_IsNone(d) == FALSE

\* filtered_df.empty
empty(d) == Len(d) = 0

\* mutant: customers counted with their repetitions
display_kpi_metrics_CountRows(d) ==
    [total_sales |-> SumCol(d, "Sales"),
     total_profit |-> SumCol(d, "Profit"),
     total_orders |-> Len(d),
     avg_order_value |-> Ratio(SumCol(d, "Sales"), Len(d)),
     unique_customers |-> Len(d),
     items_sold |-> SumCol(d, "Quantity")]

display_kpi_metrics(d) ==
    [total_sales |-> SumCol(d, "Sales"),
     total_profit |-> SumCol(d, "Profit"),
     total_orders |-> Len(d),
     avg_order_value |-> Ratio(SumCol(d, "Sales"), Len(d)),
     unique_customers |-> nunique(d, "Customer_ID"),
     items_sold |-> SumCol(d, "Quantity")]

\* daily_sales: one row per timestamp
create_time_series_chart(d) ==
    [ts \in Column(d, "Date") |->
        [Sales |-> SumCol(Where(d, "Date", ts), "Sales"),
         Profit |-> SumCol(Where(d, "Date", ts), "Profit"),
         Quantity |-> SumCol(Where(d, "Date", ts), "Quantity")]]

\* mutant: line 340 names the Profit sums Sales and the Sales sums Profit
create_regional_performance_chart_Swapped(d) ==
    [k \in Column(d, "Region") |->
        [Sales |-> SumCol(Where(d, "Region", k), "Profit"),
         Profit |-> SumCol(Where(d, "Region", k), "Sales"),
         Quantity |-> SumCol(Where(d, "Region", k), "Quantity"),
         Customers |-> nunique(Where(d, "Region", k), "Customer_ID")]]

\* regional_data, with the columns as renamed on line 340
create_regional_performance_chart(d) ==
    [k \in Column(d, "Region") |->
        [Sales |-> SumCol(Where(d, "Region", k), "Sales"),
         Profit |-> SumCol(Where(d, "Region", k), "Profit"),
         Quantity |-> SumCol(Where(d, "Region", k), "Quantity"),
         Customers |-> nunique(Where(d, "Region", k), "Customer_ID")]]

\* segment_data, the data of the pie
segment_data(d) ==
    [k \in Column(d, "Customer_Segment") |->
        [Sales |-> SumCol(Where(d, "Customer_Segment", k), "Sales"),
         Customer_ID |-> nunique(Where(d, "Customer_Segment", k), "Customer_ID"),
         Quantity |-> SumCol(Where(d, "Customer_Segment", k), "Quantity"),
         Avg_Order_Value |-> Ratio(SumCol(Where(d, "Customer_Segment", k), "Sales"),
                                   nunique(Where(d, "Customer_Segment", k), "Customer_ID"))]]

\* purchase_frequency.head(FrequencyHead): Order_Count -> Customer_Count for the
\* FrequencyHead smallest order counts
FrequencyHead == 10

purchase_frequency(d) ==
    LET customer_orders == [c \in Column(d, "Customer_ID") |-> Len(Where(d, "Customer_ID", c))]
        counts == {customer_orders[c] : c \in DOMAIN customer_orders}
        head == {n \in counts : Cardinality({m \in counts : m < n}) < FrequencyHead}
    IN  [n \in head |-> Cardinality({c \in DOMAIN customer_orders : customer_orders[c] = n})]

create_customer_analysis_charts(d) ==
    [segment |-> segment_data(d), frequency |-> purchase_frequency(d)]

\* heatmap_data: one row per (Region, Category) pair that has rows
heatmap_data(d) ==
    [k \in {<<d[i].Region, d[i].Category>> : i \in 1..Len(d)} |->
        SumCol(SelectSeq(d, LAMBDA r : r.Region = k[1] /\ r.Category = k[2]), "Sales")]

\* pivot_data: the Region x Category grid, a cell without a row filled by fillna(0)
create_sales_heatmap(d) ==
    [k \in Column(d, "Region") \X Column(d, "Category") |->
        IF k \in DOMAIN heatmap_data(d) THEN heatmap_data(d)[k] ELSE 0]

\* the product names in the order sorted() and groupby give them
SortedProducts ==
    <<"Basketball", "Bicycle", "Biography", "Chair", "Cookbook", "Dress",
      "Fiction Novel", "Headphones", "Jacket", "Jeans", "Lamp", "Laptop", "Plant",
      "Running Shoes", "Self-Help", "Shoes", "Smart Watch", "Smartphone", "Sofa",
      "T-Shirt", "Table", "Tablet", "Tennis Racket", "Textbook", "Yoga Mat">>

\* product_sales: one row per product, in the order of the product names
product_sales(d) ==
    LET present == SelectSeq(SortedProducts, LAMBDA p : p \in Column(d, "Product"))
    IN  [i \in 1..Len(present) |->
            [Product |-> present[i],
             Sales |-> SumCol(Where(d, "Product", present[i]), "Sales"),
             Quantity |-> SumCol(Where(d, "Product", present[i]), "Quantity"),
             Profit |-> SumCol(Where(d, "Product", present[i]), "Profit")]]

\* s without its i-th element
RemoveAt(s, i) == SubSeq(s, 1, i - 1) \o SubSeq(s, i + 1, Len(s))

\* mutant: the first n rows, as head(n) gives them
nlargest_Head(n, s, col) == SubSeq(s, 1, IF n < Len(s) THEN n ELSE Len(s))

RECURSIVE nlargest(_, _, _)
\* DataFrame.nlargest(n, col): the n rows of largest col, largest first, rows of
\* equal col in their order in s
nlargest(n, s, col) ==
    IF n <= 0 \/ s = <<>> THEN <<>>
    ELSE LET i == CHOOSE j \in 1..Len(s) :
                      /\ \A k \in 1..Len(s) : s[k][col] <= s[j][col]
                      /\ \A k \in 1..(j - 1) : s[k][col] < s[j][col]
         IN  <<s[i]>> \o nlargest(n - 1, RemoveAt(s, i), col)

\* default of create_top_products_chart's top_n
TopN == 10

create_top_products_chart(d, top_n) == nlargest(top_n, product_sales(d), "Sales")

-----------------------------------------------------------------------------
(* generate_sales_data and generate_simple_sales_data.  The two differ in  *)
(* the size of the customer pool, in how the date is drawn and in the      *)
(* library that draws quantity and discount.                               *)

CategoryNames == <<"Electronics", "Clothing", "Home & Garden", "Books", "Sports">>

categories ==
    [c \in Range(CategoryNames) |->
        CASE c = "Electronics"   -> <<"Laptop", "Smartphone", "Tablet", "Headphones", "Smart Watch">>
          [] c = "Clothing"      -> <<"T-Shirt", "Jeans", "Dress", "Jacket", "Shoes">>
          [] c = "Home & Garden" -> <<"Sofa", "Table", "Chair", "Lamp", "Plant">>
          [] c = "Books"         -> <<"Fiction Novel", "Textbook", "Cookbook", "Biography", "Self-Help">>
          [] c = "Sports"        -> <<"Basketball", "Tennis Racket", "Running Shoes", "Yoga Mat", "Bicycle">>]

regions == <<"North", "South", "East", "West", "Central">>

customer_segments == <<"Consumer", "Corporate", "Home Office">>

\* (min_price, max_price) in dollars
base_prices ==
    [c \in Range(CategoryNames) |->
        CASE c = "Electronics"   -> <<200, 2000>>
          [] c = "Clothing"      -> <<20, 200>>
          [] c = "Home & Garden" -> <<50, 1000>>
          [] c = "Books"         -> <<10, 50>>
          [] c = "Sports"        -> <<30, 500>>]

\* in hundredths
profit_margins ==
    [c \in Range(CategoryNames) |->
        CASE c = "Electronics"   -> 15
          [] c = "Clothing"      -> 40
          [] c = "Home & Garden" -> 25
          [] c = "Books"         -> 20
          [] c = "Sports"        -> 30]

\* mutant: np.random.choice(5) draws from 0..4
quantities_Arange == <<0, 1, 2, 3, 4>>

quantities == <<1, 2, 3, 4, 5>>

discounts == <<0, 5, 10, 15, 20, 25, 30>>

\* timedelta(days=730)
TwoYears == 730

\* the customer pool is CUST_00001 .. CUST_<PoolSize>
FakerPoolSize == 1000
SimplePoolSize == 500

PoolSize(g) == IF g = "faker" THEN FakerPoolSize ELSE SimplePoolSize

\* f"CUST_{i:05d}"
CustomerId(i) ==
    "CUST_" \o (CASE i < 10 -> "0000"
                  [] i >= 10 /\ i < 100 -> "000"
                  [] i >= 100 /\ i < 1000 -> "00"
                  [] i >= 1000 /\ i < 10000 -> "0"
                  [] OTHER -> "") \o ToString(i)

\* the first day of each month in a year of 365 days, and the day after its end
MonthStarts == <<0, 31, 59, 90, 120, 151, 181, 212, 243, 273, 304, 334, 365>>

\* date.month of day number d (leap days are left out)
MonthOf(d) ==
    CHOOSE m \in 1..(Len(MonthStarts) - 1) :
        /\ MonthStarts[m] <= d % MonthStarts[Len(MonthStarts)]
        /\ d % MonthStarts[Len(MonthStarts)] < MonthStarts[m + 1]

\* the year of day number 0
BaseYear == 2024

\* the year, month and day of the month of day number d: the fields of a
\* datetime.date, which Python compares in this order
date_of(d) ==
    <<BaseYear + (d \div MonthStarts[Len(MonthStarts)]),
      MonthOf(d),
      ((d % MonthStarts[Len(MonthStarts)]) - MonthStarts[MonthOf(d)]) + 1>>

\* the character code of a decimal digit
DigitCode(k) == 48 + k

RECURSIVE ZeroPadded(_, _)
\* n written in width digits with leading zeros (%Y, %m, %d), as character codes
ZeroPadded(n, width) ==
    IF width = 0 THEN <<>>
    ELSE Append(ZeroPadded(n \div 10, width - 1), DigitCode(n % 10))

\* the character code of '-'
Hyphen == 45

\* record_date.strftime('%Y-%m-%d'), as the string's character codes
strftime(d) ==
    ZeroPadded(date_of(d)[1], 4) \o <<Hyphen>> \o ZeroPadded(date_of(d)[2], 2)
        \o <<Hyphen>> \o ZeroPadded(date_of(d)[3], 2)

\* the value stored under 'Date': data_generator.py stores the date object,
\* simple_data_generator.py its strftime string
RecordDate(g, d) == IF g = "faker" THEN date_of(d) ELSE strftime(d)

\* a <= b as Python orders two dates or two strings: by the first position
\* where they differ, a prefix before what extends it
LexLeq(a, b) ==
    \/ /\ Len(a) <= Len(b)
       /\ \A i \in 1..Len(a) : a[i] = b[i]
    \/ \E i \in 1..Len(a) :
           /\ i <= Len(b)
           /\ a[i] < b[i]
           /\ \A j \in 1..(i - 1) : a[j] = b[j]

RECURSIVE GCD(_, _)
GCD(a, b) == IF b = 0 THEN a ELSE GCD(b, a % b)

\* Amounts are exact fractions <<numerator, denominator>> of a dollar, kept in
\* lowest terms so that the products stay within TLC's integers.
\* x * a / b
Times(x, a, b) ==
    LET g1 == GCD(x[1], b)
        g2 == GCD(a, x[2])
    IN  <<(x[1] \div g1) * (a \div g2), (x[2] \div g2) * (b \div g1)>>

\* n/d to the nearest integer, a tie going to the even one
RoundHalfEven(n, d) ==
    LET q == n \div d
        r == n % d
    IN  IF 2 * r < d THEN q
        ELSE IF 2 * r > d THEN q + 1
        ELSE IF q % 2 = 0 THEN q ELSE q + 1

\* round(x, 2), as a number of cents
round2(x) ==
    LET c == Times(x, 100, 1)
    IN  RoundHalfEven(c[1], c[2])

\* random.choice(seq)
RandomChoice(seq) == Range(seq)

\* random.uniform(a, b), explored at the ends of the interval
Uniform(a, b) == {a, b}

\* the day offsets from start_date a generator may draw, explored at both ends
\* of the range and at a day of the summer: fake.date_between includes end_date,
\* random.randint(0, 729) stops a day short of it
DateOffsets(g) ==
    IF g = "faker" THEN {0, 180, TwoYears - 1, TwoYears}
    ELSE {0, 180, TwoYears - 1}

\* the indexes into the customer pool explored: its first and last customer
CustomerDraws(g) == {1, PoolSize(g)}

\* the seasonal multiplier of Sales (and, drawn again, of Profit), in hundredths;
\* 100 when the code applies none
SeasonalFactor(month, category) ==
    IF month \in {11, 12} THEN Uniform(110, 130)
    ELSE IF month \in {6, 7, 8} /\ category \in {"Sports", "Clothing"} THEN Uniform(105, 115)
    ELSE {100}

\* mutant: the discount is added to the price
sales_amount_DiscountAdded(base_price, quantity, discount) ==
    Times(<<base_price * quantity, 1>>, 100 + discount, 100)

\* line 90: base_price * quantity * (1 - discount/100)
sales_amount(base_price, quantity, discount) ==
    Times(<<base_price * quantity, 1>>, 100 - discount, 100)

\* mutant: the product is drawn from the products of all categories
ProductChoices_AnyCategory(category) ==
    categories["Electronics"] \o categories["Clothing"] \o categories["Home & Garden"]
        \o categories["Books"] \o categories["Sports"]

\* line 59: the list random.choice draws the product from
ProductChoices(category) == categories[category]

\* 'Sales': the seasonal multiplier of lines 105-111, then round(sales_amount, 2)
RowSales(base_price, quantity, discount, season) ==
    round2(Times(sales_amount(base_price, quantity, discount), season, 100))

\* 'Profit': line 101 on the sales amount before its seasonal multiplier, then
\* the seasonal multiplier drawn for the profit, then round(profit, 2);
\* margin, spread and season in hundredths
RowProfit(base_price, quantity, discount, margin, spread, season) ==
    round2(Times(Times(Times(sales_amount(base_price, quantity, discount), margin, 100),
                       spread, 100), season, 100))

\* the dict appended on lines 113-124; Row orders the columns as the dict does
NewRow(date, product, category, region, base_price, quantity, customer, segment, discount, spread, sales_season, profit_season) ==
    Row(date, product, category, region,
        RowSales(base_price, quantity, discount, sales_season),
        quantity, CustomerId(customer), segment, discount,
        RowProfit(base_price, quantity, discount, profit_margins[category],
                  spread, profit_season))

\* s holds the rows of d, each as often as d does
IsPermutation(s, d) ==
    /\ Len(s) = Len(d)
    /\ \A r \in Range(d) :
           Cardinality({i \in 1..Len(s) : s[i] = r}) = Cardinality({i \in 1..Len(d) : d[i] = r})

\* df.sort_values('Date').reset_index(drop=True): the rows by non-decreasing
\* Date; the default sort is not stable, so rows of one Date come in any order
sort_values(d) ==
    {s \in [1..Len(d) -> Range(d)] :
        /\ IsPermutation(s, d)
        /\ \A i \in 1..(Len(s) - 1) : LexLeq(s[i].Date, s[i + 1].Date)}

\* the dashboard does not run
DashOff ==
    /\ file_exists = FALSE
    /\ csv = <<>>
    /\ cache = None
    /\ df = None
    /\ filters = None
    /\ filtered_df = None
    /\ applied = {}
    /\ kpi = None
    /\ charts = None
    /\ given_top_n = TopN
    /\ shown = <<>>
    /\ pc = "off"

GenInit ==
    /\ generator \in {"faker", "simple"}
    /\ num_records \in 0..MaxRecords
    /\ today = TwoYears
    /\ data = <<>>
    /\ iterations = 0
    /\ result = None
    /\ g_pc = "loop"
    /\ DashOff

\* what one loop iteration may draw, by the name of the local it is drawn for
Draws(g) ==
    [offset |-> DateOffsets(g),
     category |-> RandomChoice(CategoryNames),
     region |-> RandomChoice(regions),
     segment |-> RandomChoice(customer_segments),
     customer |-> CustomerDraws(g),
     quantity |-> RandomChoice(quantities),
     discount |-> RandomChoice(discounts),
     spread |-> Uniform(80, 120)]

\* the body of the loop of lines 53-124, its draws taken from w
LoopBody(w) ==
    /\ g_pc = "loop"
    /\ iterations < num_records
    /\ \E offset \in w.offset,
          category \in w.category,
          region \in w.region,
          segment \in w.segment,
          customer \in w.customer,
          quantity \in w.quantity,
          discount \in w.discount,
          spread \in w.spread :
        \E product \in RandomChoice(ProductChoices(category)),
           base_price \in Uniform(base_prices[category][1], base_prices[category][2]),
           sales_season \in SeasonalFactor(MonthOf((today - TwoYears) + offset), category),
           profit_season \in SeasonalFactor(MonthOf((today - TwoYears) + offset), category) :
            data' = Append(data,
                       NewRow(RecordDate(generator, (today - TwoYears) + offset),
                              product, category, region,
                              base_price, quantity, customer, segment, discount,
                              spread, sales_season, profit_season))
    /\ iterations' = iterations + 1
    /\ UNCHANGED <<generator, num_records, today, result, g_pc>>
    /\ UNCHANGED dash_vars

\* one iteration of the loop of lines 53-124
GenerateRecord == LoopBody(Draws(generator))

\* lines 126-130 when the loop appended nothing: pd.DataFrame([]) has no
\* column, and sort_values('Date') raises KeyError
RaiseKeyError ==
    /\ g_pc = "loop"
    /\ iterations = num_records
    /\ data = <<>>
    /\ g_pc' = "raised"
    /\ UNCHANGED <<generator, num_records, today, data, iterations, result>>
    /\ UNCHANGED dash_vars

\* lines 126-132: the DataFrame of the rows, sorted by Date, is returned
ReturnFrame ==
    /\ g_pc = "loop"
    /\ iterations = num_records
    /\ data # <<>>
    /\ \E s \in sort_values(data) : result' = Some(s)
    /\ g_pc' = "done"
    /\ UNCHANGED <<generator, num_records, today, data, iterations>>
    /\ UNCHANGED dash_vars

GenNext ==
    \/ GenerateRecord
    \/ RaiseKeyError
    \/ ReturnFrame

SpecGen == GenInit /\ [][GenNext]_vars

-----------------------------------------------------------------------------
(* The generators over several records: the dates and the customers are    *)
(* drawn as before, the other columns from one value each, so that runs of *)
(* MaxDated records stay within reach.                                     *)

\* Most records generated when the dates are followed.
MaxDated == 2

DatedDraws(g) ==
    [Draws(g) EXCEPT !.category = {"Books"}, !.region = {"North"},
                     !.segment = {"Consumer"}, !.quantity = {1},
                     !.discount = {0}, !.spread = {80}]

GenInitDated ==
    /\ generator \in {"faker", "simple"}
    /\ num_records \in 0..MaxDated
    /\ today = TwoYears
    /\ data = <<>>
    /\ iterations = 0
    /\ result = None
    /\ g_pc = "loop"
    /\ DashOff

\* one iteration of the loop, the draws narrowed
GenerateDated == LoopBody(DatedDraws(generator))

GenNextDated ==
    \/ GenerateDated
    \/ RaiseKeyError
    \/ ReturnFrame

SpecGenDated == GenInitDated /\ [][GenNextDated]_vars

-----------------------------------------------------------------------------
(* main: one script run, from the header to the footer.  Streamlit runs    *)
(* the script again on every widget change; only st.cache_data's store     *)
(* survives a run.                                                         *)

\* no generator runs
GenOff ==
    /\ generator = "none"
    /\ num_records = 0
    /\ today = 0
    /\ data = <<>>
    /\ iterations = 0
    /\ result = None
    /\ g_pc = "off"

Init ==
    /\ file_exists \in BOOLEAN
    /\ csv \in Tables
    /\ cache = None
    /\ df = None
    /\ filters = None
    /\ filtered_df = None
    /\ applied = {}
    /\ kpi = None
    /\ charts = None
    /\ given_top_n = TopN
    /\ shown = <<>>
    /\ pc = "start"
    /\ GenOff

\* lines 430-434: the header, then df = load_data()
LoadData ==
    /\ pc = "start"
    /\ LET r == load_data(cache, file_exists, csv)
       IN  /\ shown' = <<"header">> \o r.errors
           /\ df' = r.df
           /\ cache' = r.cache
           /\ pc' = IF r.stopped THEN "stopped" ELSE "loaded"
    /\ UNCHANGED <<file_exists, csv, filters, filtered_df, applied, kpi, charts>>
    /\ UNCHANGED <<given_top_n, gen_vars>>

\* line 437: the sidebar widgets and the values the user has set them to
CreateSidebarFilters ==
    /\ pc = "loaded"
    /\ \E f \in create_sidebar_filters(Get(df)) : filters' = Some(f)
    /\ shown' = Append(shown, "sidebar")
    /\ pc' = "filters"
    /\ UNCHANGED <<file_exists, csv, cache, df, filtered_df, applied, kpi, charts>>
    /\ UNCHANGED <<given_top_n, gen_vars>>

\* line 440
FilterData ==
    /\ pc = "filters"
    /\ filtered_df' = Some(filter_data(Get(df), Get(filters)))
    /\ df' = Some(FrameAfterFilter(Get(df), Get(filters)))
    /\ applied' = DOMAIN FilterSteps
    /\ pc' = "filtered"
    /\ UNCHANGED <<file_exists, csv, cache, filters, kpi, charts, shown>>
    /\ UNCHANGED <<given_top_n, gen_vars>>

\* lines 443-445: the warning, and main returns
ShowWarning ==
    /\ pc = "filtered"
    /\ empty(Get(filtered_df))
    /\ shown' = Append(shown, "warning")
    /\ pc' = "done"
    /\ UNCHANGED <<file_exists, csv, cache, df, filters, filtered_df, applied, kpi, charts>>
    /\ UNCHANGED <<given_top_n, gen_vars>>

\* lines 447-449
DisplayKpi ==
    /\ pc = "filtered"
    /\ ~empty(Get(filtered_df))
    /\ kpi' = Some(display_kpi_metrics(Get(filtered_df)))
    /\ shown' = Append(shown, "kpi")
    /\ pc' = "kpi"
    /\ UNCHANGED <<file_exists, csv, cache, df, filters, filtered_df, applied, charts>>
    /\ UNCHANGED <<given_top_n, gen_vars>>

\* lines 453-486: the six charts, each computed from filtered_df
RenderCharts ==
    /\ pc = "kpi"
    /\ charts' = Some(
         [time_series |-> create_time_series_chart(Get(filtered_df)),
          top_products |-> create_top_products_chart(Get(filtered_df), given_top_n),
          regional |-> create_regional_performance_chart(Get(filtered_df)),
          segment |-> create_customer_analysis_charts(Get(filtered_df)).segment,
          frequency |-> create_customer_analysis_charts(Get(filtered_df)).frequency,
          heatmap |-> create_sales_heatmap(Get(filtered_df))])
    /\ shown' = shown \o <<"time_series", "top_products", "regional", "segment",
                           "frequency", "heatmap">>
    /\ pc' = "charts"
    /\ UNCHANGED <<file_exists, csv, cache, df, filters, filtered_df, applied, kpi>>
    /\ UNCHANGED <<given_top_n, gen_vars>>

\* lines 488-515: the raw-data expander and the footer
RenderFooter ==
    /\ pc = "charts"
    /\ shown' = shown \o <<"raw_data", "footer">>
    /\ pc' = "done"
    /\ UNCHANGED <<file_exists, csv, cache, df, filters, filtered_df, applied, kpi, charts>>
    /\ UNCHANGED <<given_top_n, gen_vars>>

\* a widget change or a reload starts the script again with fresh locals
Rerun ==
    /\ pc \in {"done", "stopped"}
    /\ pc' = "start"
    /\ df' = None
    /\ filters' = None
    /\ filtered_df' = None
    /\ applied' = {}
    /\ kpi' = None
    /\ charts' = None
    /\ shown' = <<>>
    /\ UNCHANGED <<file_exists, csv, cache>>
    /\ UNCHANGED <<given_top_n, gen_vars>>

\* between two runs the user runs data_generator.py, which writes the file
RunDataGenerator ==
    /\ pc \in {"done", "stopped"}
    /\ ~file_exists
    /\ file_exists' = TRUE
    /\ UNCHANGED <<csv, cache, df, filters, filtered_df, applied, kpi, charts, shown, pc>>
    /\ UNCHANGED <<given_top_n, gen_vars>>

\* between two runs the file is removed
RemoveFile ==
    /\ pc \in {"done", "stopped"}
    /\ file_exists
    /\ file_exists' = FALSE
    /\ UNCHANGED <<csv, cache, df, filters, filtered_df, applied, kpi, charts, shown, pc>>
    /\ UNCHANGED <<given_top_n, gen_vars>>

Next ==
    \/ LoadData
    \/ CreateSidebarFilters
    \/ FilterData
    \/ ShowWarning
    \/ DisplayKpi
    \/ RenderCharts
    \/ RenderFooter
    \/ Rerun
    \/ RunDataGenerator
    \/ RemoveFile

Spec == Init /\ [][Next]_vars

-----------------------------------------------------------------------------
(* filter_data with its five steps taken one at a time in any order: the   *)
(* table is loaded, the filters are set, filtered_df is the copy of line   *)
(* 143, and each step not yet applied may come next.                       *)

InitOrder ==
    /\ file_exists = TRUE
    /\ csv \in Tables
    /\ cache = Some(Preprocess(csv))
    /\ df = Some(Preprocess(csv))
    /\ filters \in {Some(f) : f \in create_sidebar_filters(Preprocess(csv))}
    /\ filtered_df = Some(Copy(Preprocess(csv)))
    /\ applied = {}
    /\ kpi = None
    /\ charts = None
    /\ given_top_n = TopN
    /\ shown = <<"header", "sidebar">>
    /\ pc = "steps"
    /\ GenOff

\* one of the steps of lines 145-167 that has not run yet
ApplyStep ==
    /\ pc = "steps"
    /\ \E k \in DOMAIN FilterSteps \ applied :
        /\ filtered_df' = Some(Step(k, Get(df), Get(filtered_df), Get(filters)))
        /\ applied' = applied \cup {k}
    /\ UNCHANGED <<file_exists, csv, cache, df, filters, kpi, charts, shown, pc>>
    /\ UNCHANGED <<given_top_n, gen_vars>>

\* filter_data with the same filters on the table the five steps produced
FilterAgain ==
    /\ pc = "steps"
    /\ applied = DOMAIN FilterSteps
    /\ filtered_df' = Some(filter_data(Get(filtered_df), Get(filters)))
    /\ pc' = "again"
    /\ UNCHANGED <<file_exists, csv, cache, df, filters, applied, kpi, charts, shown>>
    /\ UNCHANGED <<given_top_n, gen_vars>>

NextOrder ==
    \/ ApplyStep
    \/ FilterAgain

SpecOrder == InitOrder /\ [][NextOrder]_vars

-----------------------------------------------------------------------------
(* create_top_products_chart on its own: any table of up to MaxTopRows     *)
(* rows as its df, and a top_n that may be smaller than the number of      *)
(* products.                                                               *)

InitTop ==
    /\ file_exists = TRUE
    /\ csv \in UNION {[1..n -> SampleRows] : n \in 1..MaxTopRows}
    /\ cache = Some(Preprocess(csv))
    /\ df = Some(Preprocess(csv))
    /\ filters = None
    /\ filtered_df = Some(Copy(Preprocess(csv)))
    /\ applied = {}
    /\ kpi = None
    /\ charts = None
    /\ given_top_n \in (0..MaxTopN) \cup {TopN}
    /\ shown = <<>>
    /\ pc = "top"
    /\ GenOff

\* lines 286-320: the chart of the top_n products of filtered_df
TopProducts ==
    /\ pc = "top"
    /\ charts' = Some([top_products |-> create_top_products_chart(Get(filtered_df), given_top_n)])
    /\ shown' = Append(shown, "top_products")
    /\ pc' = "done"
    /\ UNCHANGED <<file_exists, csv, cache, df, filters, filtered_df, applied, kpi>>
    /\ UNCHANGED <<given_top_n, gen_vars>>

NextTop == TopProducts

SpecTop == InitTop /\ [][NextTop]_vars

-----------------------------------------------------------------------------
(* Properties of the dashboard, checked under Spec.                        *)

\* the table load_data returns for the file
Loaded == Preprocess(csv)

\* a run has passed filter_data
Filtered == filtered_df # None

\* row r satisfies the five predicates of filters f; a date_range that is not
\* a pair of dates restricts nothing
RowPasses(r, f) ==
    /\ Len(f.date_range) = 2 =>
           f.date_range[1] <= DateOf(r.Date) /\ DateOf(r.Date) <= f.date_range[2]
    /\ f.category # "All" => r.Category = f.category
    /\ f.region # "All" => r.Region = f.region
    /\ f.segment # "All" => r.Customer_Segment = f.segment
    /\ f.product # "All" => r.Product = f.product

\* the positions of the rows of d that satisfy f
Kept(d, f) == {i \in 1..Len(d) : RowPasses(d[i], f)}

RECURSIVE SumOver(_, _)
\* the sum of g[x] over the x in S
SumOver(g, S) ==
    IF S = {} THEN 0
    ELSE LET x == CHOOSE y \in S : TRUE IN g[x] + SumOver(g, S \ {x})

\* the sum of column col over the rows of d at the positions in S
SumAt(d, col, S) == SumOver([i \in S |-> d[i][col]], S)

\* C1: with a start and an end date selected, filter_data returns exactly the
\* rows of the loaded table whose date lies in [start_date, end_date], both
\* ends included, and whose category, region, segment and product equal every
\* filter value that is not 'All': the same rows, as often, in the same order.
C1_FilterIsConjunction ==
    (Filtered /\ Len(Get(filters).date_range) = 2) =>
        Get(filtered_df) = SelectSeq(Loaded, LAMBDA r : RowPasses(r, Get(filters)))

\* a date range and a category are selected, a row dated on the end date after
\* midnight is kept and another row is dropped
C1_Witness ==
    /\ Filtered
    /\ Len(Get(filters).date_range) = 2
    /\ Get(filters).category # "All"
    /\ Len(Get(filtered_df)) > 0
    /\ Len(Get(filtered_df)) < Len(Loaded)
    /\ \E i \in 1..Len(Get(filtered_df)) :
           /\ DateOf(Get(filtered_df)[i].Date) = Get(filters).date_range[2]
           /\ Get(filtered_df)[i].Date[2] > 0

\* C3: the KPIs on the page are those of the filtered rows: total sales and
\* total profit are the sums of Sales and Profit over the rows of the loaded
\* table that satisfy the filters, total orders their number, and unique
\* customers the number of distinct Customer_ID among them.
C3_KpisOverFilteredRows ==
    kpi # None =>
        LET kept == Kept(Loaded, Get(filters))
        IN  /\ Get(filtered_df) = filter_data(Loaded, Get(filters))
            /\ Get(kpi).total_sales = SumAt(Loaded, "Sales", kept)
            /\ Get(kpi).total_profit = SumAt(Loaded, "Profit", kept)
            /\ Get(kpi).total_orders = Cardinality(kept)
            /\ Get(kpi).unique_customers =
                   Cardinality({Loaded[i].Customer_ID : i \in kept})

\* KPIs are shown for a table from which the filters dropped a row
C3_Witness ==
    /\ kpi # None
    /\ Len(Get(filtered_df)) < Len(Loaded)
    /\ Get(kpi).total_sales < SumCol(Loaded, "Sales")

\* C4: in the regional chart, the segment pie and the heatmap every group's
\* Sales is the sum of Sales over the filtered rows of that group, the groups
\* are those that have a filtered row (the heatmap: every region with every
\* category, a pair without a row being 0), and the values of each chart add
\* up to the total sales of the KPIs.
C4_GroupsPartition ==
    charts # None =>
        LET kept == Kept(Loaded, Get(filters))
            regional == Get(charts).regional
            segment == Get(charts).segment
            heatmap == Get(charts).heatmap
        IN  /\ DOMAIN regional = {Loaded[i].Region : i \in kept}
            /\ \A k \in DOMAIN regional :
                   regional[k].Sales =
                       SumAt(Loaded, "Sales", {i \in kept : Loaded[i].Region = k})
            /\ SumOver([k \in DOMAIN regional |-> regional[k].Sales], DOMAIN regional)
                   = Get(kpi).total_sales
            /\ DOMAIN segment = {Loaded[i].Customer_Segment : i \in kept}
            /\ \A k \in DOMAIN segment :
                   segment[k].Sales =
                       SumAt(Loaded, "Sales", {i \in kept : Loaded[i].Customer_Segment = k})
            /\ SumOver([k \in DOMAIN segment |-> segment[k].Sales], DOMAIN segment)
                   = Get(kpi).total_sales
            /\ DOMAIN heatmap =
                   {Loaded[i].Region : i \in kept} \X {Loaded[i].Category : i \in kept}
            /\ \A k \in DOMAIN heatmap :
                   /\ heatmap[k] =
                          SumAt(Loaded, "Sales",
                                {i \in kept : Loaded[i].Region = k[1] /\ Loaded[i].Category = k[2]})
                   /\ (\A i \in kept : <<Loaded[i].Region, Loaded[i].Category>> # k)
                          => heatmap[k] = 0
            /\ SumOver(heatmap, DOMAIN heatmap) = Get(kpi).total_sales

\* charts are drawn for two regions and two segments, with a heatmap cell
\* that has no row
C4_Witness ==
    /\ charts # None
    /\ Cardinality(DOMAIN Get(charts).regional) = 2
    /\ Cardinality(DOMAIN Get(charts).segment) = 2
    /\ \E k \in DOMAIN Get(charts).heatmap :
           /\ Get(charts).heatmap[k] = 0
           /\ \A i \in 1..Len(Get(filtered_df)) :
                  <<Get(filtered_df)[i].Region, Get(filtered_df)[i].Category>> # k

\* C8: no run changes the loaded table or leaves anything to the next run but
\* the cached table: the cache and df hold the table first loaded from the
\* file, and the filtered table, the KPIs and the chart data of a run are
\* those of that table under the filters of this run.
C8_NoSharedMutableState ==
    /\ cache \in {None, Some(Loaded)}
    /\ df \in {None, cache}
    /\ Filtered => Get(filtered_df) = filter_data(Loaded, Get(filters))
    /\ kpi # None => Get(kpi) = display_kpi_metrics(filter_data(Loaded, Get(filters)))
    /\ charts # None =>
           /\ Get(charts).regional =
                  create_regional_performance_chart(filter_data(Loaded, Get(filters)))
           /\ Get(charts).heatmap = create_sales_heatmap(filter_data(Loaded, Get(filters)))
           /\ Get(charts).segment =
                  create_customer_analysis_charts(filter_data(Loaded, Get(filters))).segment

\* a run after the first one (the file is gone, the table comes from the
\* cache) has filtered rows away and drawn its charts
C8_Witness ==
    /\ ~file_exists
    /\ pc = "charts"
    /\ df = cache
    /\ Len(Get(filtered_df)) < Len(Get(df))

\* the page elements main renders after the emptiness check
AfterWarning ==
    {"kpi", "time_series", "top_products", "regional", "segment", "frequency",
     "heatmap", "raw_data", "footer"}

\* C9: when no row satisfies the filters the run ends with the warning and
\* nothing after it; KPIs and charts are only ever computed from a table
\* with at least one row.
C9_EmptyShowsOnlyWarning ==
    /\ (Filtered /\ Len(Get(filtered_df)) = 0 /\ pc # "filtered") =>
           /\ pc = "done"
           /\ shown = <<"header", "sidebar", "warning">>
           /\ kpi = None
           /\ charts = None
    /\ (kpi # None \/ charts # None \/ Range(shown) \cap AfterWarning # {}) =>
           /\ Filtered
           /\ Len(Get(filtered_df)) >= 1

\* a run whose filters, each matching some row, together match none has ended
C9_Witness ==
    /\ pc = "done"
    /\ Len(Get(filtered_df)) = 0
    /\ shown[Len(shown)] = "warning"

\* what a run shows and holds when load_data has stopped it
StoppedOnNotFound ==
    /\ pc = "stopped"
    /\ shown = <<"header", NotFoundError>>
    /\ cache = None
    /\ df = None
    /\ filters = None
    /\ filtered_df = None
    /\ kpi = None
    /\ charts = None

\* C10 as stated: a run that starts while the file does not exist is stopped
\* by load_data with the 'Sales data not found' error, without a table, a
\* filter widget, a KPI or a chart.
C10_AsStated ==
    [][(pc = "start" /\ ~file_exists) => StoppedOnNotFound']_vars

\* C10, amended: a run that starts while the file does not exist and no
\* table is cached is stopped by load_data with the 'Sales data not found'
\* error, without a table, a filter widget, a KPI or a chart, and nothing is
\* rendered until the next run starts.
C10_NotFoundStops ==
    [][/\ (pc = "start" /\ ~file_exists /\ cache = None) => StoppedOnNotFound'
       /\ (pc = "stopped" /\ pc' # "start") =>
              UNCHANGED <<cache, df, filters, filtered_df, kpi, charts, shown, pc>>]_vars

\* load_data has stopped a run
C10_Witness == StoppedOnNotFound /\ ~file_exists

-----------------------------------------------------------------------------
(* Properties of the filter steps, checked under SpecOrder.                *)

\* C2: in whatever order the five filter steps have been applied, the table
\* they leave is the one filter_data returns for the loaded table, and
\* filter_data applied to that table with the same filters returns it again.
C2_OrderIndependent ==
    applied = DOMAIN FilterSteps =>
        Get(filtered_df) = filter_data(Get(df), Get(filters))

\* filter_data has run a second time, on a result from which the category
\* step and the region step each dropped a row that the other kept
C2_Witness ==
    /\ pc = "again"
    /\ Get(filters).category # "All"
    /\ Get(filters).region # "All"
    /\ Len(StepCategory(Get(df), Get(df), Get(filters))) = 1
    /\ Len(StepRegion(Get(df), Get(df), Get(filters))) = 1
    /\ StepCategory(Get(df), Get(df), Get(filters)) # StepRegion(Get(df), Get(df), Get(filters))

-----------------------------------------------------------------------------
(* Properties of the generators, checked under SpecGen.                    *)

\* the rows generated so far and the rows returned
GeneratedRows == Range(data) \cup (IF result = None THEN {} ELSE Range(Get(result)))

\* C5: every generated row has its Category among the five declared
\* categories, its Region among the five declared regions, its
\* Customer_Segment among the three declared segments, its Quantity in 1..5
\* and its Discount in {0, 5, 10, 15, 20, 25, 30}.
C5_ValuesFromDeclaredSets ==
    \A r \in GeneratedRows :
        /\ r.Category \in {"Electronics", "Clothing", "Home & Garden", "Books", "Sports"}
        /\ r.Region \in {"North", "South", "East", "West", "Central"}
        /\ r.Customer_Segment \in {"Consumer", "Corporate", "Home Office"}
        /\ r.Quantity \in 1..5
        /\ r.Discount \in {0, 5, 10, 15, 20, 25, 30}

\* the simple generator has returned a row holding the last value of each list
C5_Witness ==
    /\ generator = "simple"
    /\ result # None
    /\ \E r \in Range(Get(result)) :
           /\ r.Category = "Sports"
           /\ r.Region = "Central"
           /\ r.Customer_Segment = "Home Office"
           /\ r.Quantity = 5
           /\ r.Discount = 30

\* C6 as stated: the Sales of every generated row lies within [min_price,
\* max_price] of its category (Sales in cents, the prices in dollars).
C6_AsStated ==
    \A r \in GeneratedRows :
        /\ 100 * base_prices[r.Category][1] <= r.Sales
        /\ r.Sales <= 100 * base_prices[r.Category][2]

\* C6, amended: the price bounds hold for the unit price, not for Sales.
\* Sales is a unit price within [min_price, max_price] times Quantity, times
\* (1 - Discount/100), times a seasonal factor between 1 and 1.3, so it lies
\* within [min_price * Quantity * (1 - Discount/100),
\*         1.3 * max_price * Quantity * (1 - Discount/100)].
C6_SalesWithinScaledBounds ==
    \A r \in GeneratedRows :
        /\ base_prices[r.Category][1] * r.Quantity * (100 - r.Discount) <= r.Sales
        /\ 100 * r.Sales <= 130 * base_prices[r.Category][2] * r.Quantity * (100 - r.Discount)

\* a returned row sells five units at the top price in the holiday season:
\* its Sales is 6.5 times max_price
C6_Witness ==
    /\ result # None
    /\ \E r \in Range(Get(result)) :
           /\ r.Quantity = 5
           /\ r.Discount = 0
           /\ 10 * r.Sales = 65 * 100 * base_prices[r.Category][2]

\* C7: the Product of every generated row is listed under the row's Category
\* in the categories table, and under no other category.
C7_ProductOfCategory ==
    \A r \in GeneratedRows :
        \A c \in {"Electronics", "Clothing", "Home & Garden", "Books", "Sports"} :
            (r.Product \in Range(categories[c])) <=> (c = r.Category)

\* a returned row holds the last product of the last category
C7_Witness ==
    /\ result # None
    /\ \E r \in Range(Get(result)) : r.Category = "Sports" /\ r.Product = "Bicycle"

\* C13: when the date-range widget returned anything but a start and an end
\* date, filter_data restricts by no date: it returns the rows of the loaded
\* table that satisfy the category, region, segment and product filters,
\* whatever their dates.
C13_NoDateRestriction ==
    (Filtered /\ Len(Get(filters).date_range) # 2) =>
        Get(filtered_df) =
            SelectSeq(Loaded,
                      LAMBDA r : /\ Get(filters).category \in {"All", r.Category}
                                 /\ Get(filters).region \in {"All", r.Region}
                                 /\ Get(filters).segment \in {"All", r.Customer_Segment}
                                 /\ Get(filters).product \in {"All", r.Product})

\* only a start date is picked: a row dated before it is kept, and the
\* category filter drops another row
C13_Witness ==
    /\ Filtered
    /\ Len(Get(filters).date_range) = 1
    /\ Get(filters).category # "All"
    /\ Len(Get(filtered_df)) < Len(Loaded)
    /\ \E i \in 1..Len(Get(filtered_df)) :
           DateOf(Get(filtered_df)[i].Date) < Get(filters).date_range[1]

-----------------------------------------------------------------------------
(* Properties of create_top_products_chart, checked under SpecTop.         *)

\* the chart has been drawn
TopDrawn == pc = "done" /\ charts # None

\* the summed Sales of the rows of d whose Product is p
SalesOfProduct(d, p) == SumAt(d, "Sales", {i \in 1..Len(d) : d[i].Product = p})

\* C11: the chart shows min(top_n, number of distinct products) different
\* products, each with the sum of Sales of the rows of that product; no
\* product left out has a larger sum than a product shown, and the products
\* shown are in non-increasing order of their sums.
C11_TopProductsBySales ==
    TopDrawn =>
        LET d == Get(filtered_df)
            top == Get(charts).top_products
            products == Column(d, "Product")
            chosen == {top[i].Product : i \in 1..Len(top)}
        IN  /\ Len(top) = IF given_top_n < Cardinality(products)
                          THEN given_top_n ELSE Cardinality(products)
            /\ Cardinality(chosen) = Len(top)
            /\ chosen \subseteq products
            /\ \A i \in 1..Len(top) : top[i].Sales = SalesOfProduct(d, top[i].Product)
            /\ \A p \in products \ chosen :
                   \A i \in 1..Len(top) : SalesOfProduct(d, p) <= top[i].Sales
            /\ \A i \in 1..Len(top) : \A j \in i..Len(top) : top[j].Sales <= top[i].Sales

\* three products, two shown: the product of the smallest sum, first in the
\* order of the names, is left out, and the other two tie on their sums
C11_Witness ==
    /\ TopDrawn
    /\ given_top_n = 2
    /\ Cardinality(Column(Get(filtered_df), "Product")) = 3
    /\ Len(Get(charts).top_products) = 2
    /\ Get(charts).top_products[1].Product = "Laptop"
    /\ Get(charts).top_products[2].Product = "Tablet"
    /\ Get(charts).top_products[1].Sales = Get(charts).top_products[2].Sales

-----------------------------------------------------------------------------
(* Properties of the generators over several records, checked under        *)
(* SpecGenDated.                                                           *)

\* the call has ended, by a return or by an exception
GenEnded == g_pc # "loop"

RECURSIVE DecimalValue(_)
\* the number that a string of decimal digits, given by its character codes, writes
DecimalValue(codes) ==
    IF codes = <<>> THEN 0
    ELSE 10 * DecimalValue(SubSeq(codes, 1, Len(codes) - 1)) + (codes[Len(codes)] - 48)

\* the day number of the calendar day year-month-day
DayNumber(year, month, day) ==
    (year - BaseYear) * MonthStarts[Len(MonthStarts)] + MonthStarts[month] + (day - 1)

\* the day number of the calendar day that the generator g stored as dt: read
\* from the fields of the date object or from the 'YYYY-MM-DD' string
DayOfDate(g, dt) ==
    IF g = "faker" THEN DayNumber(dt[1], dt[2], dt[3])
    ELSE DayNumber(DecimalValue(SubSeq(dt, 1, 4)), DecimalValue(SubSeq(dt, 6, 7)),
                   DecimalValue(SubSeq(dt, 9, 10)))

\* the call returned num_records rows, the rows the loop appended, by
\* non-decreasing date, each with a customer of the pool and a date within
\* the TwoYears days before today
ReturnedAsStated ==
    /\ result # None
    /\ Len(Get(result)) = num_records
    /\ iterations = num_records
    /\ IsPermutation(Get(result), data)
    /\ \A i \in 1..(Len(Get(result)) - 1) :
           DayOfDate(generator, Get(result)[i].Date)
               <= DayOfDate(generator, Get(result)[i + 1].Date)
    /\ \A r \in Range(Get(result)) :
           /\ r.Customer_ID \in {CustomerId(i) : i \in 1..PoolSize(generator)}
           /\ today - TwoYears <= DayOfDate(generator, r.Date)
           /\ DayOfDate(generator, r.Date) <= today

\* C12 as stated: a call with num_records = n returns exactly n rows, one per
\* loop iteration, ordered by non-decreasing Date, every Customer_ID from the
\* generator's pool and every date within the 730 days before the generation
\* time.
C12_AsStated == GenEnded => ReturnedAsStated

\* C12 for calls that generate at least one record: those return as stated.
C12_ReturnsFromOneRecord == (GenEnded /\ num_records >= 1) => ReturnedAsStated

\* a call with num_records = 0 has ended in the KeyError, without a result
C12_Witness ==
    /\ num_records = 0
    /\ g_pc = "raised"
    /\ result = None

\* the simple generator drew 31 December and then 1 January a year earlier,
\* the last and the first customer of its pool, and returned them by date
C12_SortedWitness ==
    /\ generator = "simple"
    /\ result # None
    /\ Len(data) = 2
    /\ data[1].Date = strftime(TwoYears - 1)
    /\ data[2].Date = strftime(0)
    /\ Get(result)[1].Date = data[2].Date
    /\ Get(result)[2].Date = data[1].Date
    /\ data[1].Customer_ID = "CUST_00500"
    /\ data[2].Customer_ID = "CUST_00001"

====
